---- MODULE Spec2Model ----
(***************************************************************************)
(* State-machine model of the cross-chain gas exchange of the omni         *)
(* repository: OmniXFund (the settlement ledger on Omni), OmniGasExchange   *)
(* (the swap engine on an origin chain) and the at-least-once cross-chain   *)
(* channel between them; the network configuration (lib/netconf) and the   *)
(* latency correlation engine (scripts/xmsglatency) that run off chain.     *)
(***************************************************************************)
EXTENDS Integers, Sequences, FiniteSets, TLC

\* ------------------------------------------------------------------------
\* Addresses, chains and the small input sets the actions draw from
\* ------------------------------------------------------------------------
Owner == "owner"
Stranger == "stranger"
ExchangeAddr == "exchange"
FundAddr == "fund"
FundAddr2 == "fund2"
ZeroAddr == "0x0"
Recipients == {"alice", "bob"}
Callers == {Owner, Stranger}
Senders == {ExchangeAddr, Stranger}
ExChain == "eth"
Chains == {ExChain, "arb"}
NoChain == "none"

\* totals a settlement request may carry, and what the fund may be topped up with
Totals == {100, 150}
\* the largest total a settlement request carries
MaxTotal == CHOOSE t \in Totals : \A u \in Totals : u <= t
TopUps == {1600}
MaxBalance == 1600

WatchRecipient == "alice"
WatchChain == ExChain

\* the (recipient, origin chain) keys settlement requests are made for
Keys == {<<"alice", ExChain>>, <<"alice", "arb">>, <<"bob", ExChain>>}

VARIABLES
    authed,        \* OmniXFund.authed[chainID][addr]
    funded,        \* OmniXFund.funded[recipient][chainID]
    fundPaused,    \* PausableUpgradeable state of OmniXFund
    fundBalance,   \* address(OmniXFund).balance
    paid,          \* value moved by recipient.call{value: amt}, per (recipient, origin chain)
    lastCall,      \* outcome of the latest tryWithdrawRemaining call
    lastTotal,     \* latest total submitted for (WatchRecipient, WatchChain); -1 before any
    mono,          \* the totals submitted for that key so far are non-decreasing
    fund,          \* OmniGasExchange.fund
    maxSwap,       \* OmniGasExchange.maxSwap
    pctCut,        \* OmniGasExchange.pctCut
    swapped,       \* OmniGasExchange.swapped[recipient]
    exPaused,      \* PausableUpgradeable state of OmniGasExchange
    rate,          \* FeeOracleV1.toNativeRate(omniChainId()) as read by the exchange
    fee,           \* what the portal's feeFor returns for the withdraw xcall when its
                   \* arguments hold no zero byte
    discount,      \* what the portal's feeFor takes off per zero byte of the arguments
    channel,       \* settlement xcalls emitted by the exchange; the relay may deliver
                   \* any of them at any time, any number of times
    lastSwap,      \* outcome of the latest swap call (the Swapped event when it succeeded)
    quote,         \* the latest ethNeededFor call on OmniGasExchange and what it returned
    file,          \* netconf: content of the network configuration file, or NoFile
    network,       \* netconf: the Network value the process holds
    out,           \* netconf: what the latest netconf call returned
    msgStore,      \* xmsglatency: MsgID -> timestamp of the block that showed the message
    recStore,      \* xmsglatency: MsgID -> timestamp of the block that showed the receipt
    stats,         \* xmsglatency: the per-stream stats of the aggregation pass under way
    ranged,        \* xmsglatency: keys msgStore.Range has visited in this pass
    rangeStart,    \* xmsglatency: keys msgStore held when this pass began
    streams,       \* xmsglatency: chains whose block stream has been started
    chainIdx,      \* xmsglatency: position of the start-up loop in network.Chains
    pc,            \* xmsglatency: "subscribe", "wait" (for a tick), "range", "done" (RunE
                   \* returned nil) or "failed" (RunE returned an error)
    cancelled,     \* xmsglatency: ctx, the command's context, is done
    dirty,         \* xmsglatency: a store changed while the current Range was under way
    shown          \* xmsglatency: the statistics of the table rendered last, as an observer
                   \* of the screen keeps them from one tick to the next

fundVars == <<authed, funded, fundPaused, fundBalance, paid, lastCall, lastTotal, mono>>
exVars == <<fund, maxSwap, pctCut, swapped, exPaused, rate, fee, discount, channel, lastSwap, quote>>
netVars == <<file, network, out>>
latVars == <<msgStore, recStore, stats, ranged, rangeStart, streams, chainIdx, pc, cancelled, dirty,
            shown>>
goVars == <<file, network, out, msgStore, recStore, stats, ranged, rangeStart, streams, chainIdx, pc,
           cancelled, dirty, shown>>
vars == <<authed, funded, fundPaused, fundBalance, paid, lastCall, lastTotal, mono,
          fund, maxSwap, pctCut, swapped, exPaused, rate, fee, discount, channel, lastSwap, quote,
          file, network, out,
          msgStore, recStore, stats, ranged, rangeStart, streams, chainIdx, pc, cancelled, dirty,
          shown>>

NoCall == [result |-> "none", amt |-> 0, success |-> FALSE]

\* ------------------------------------------------------------------------
\* OmniXFund
\* ------------------------------------------------------------------------

\* modifier whenPaused on tryWithdrawRemaining: the body runs only if this holds
PauseGate(paused) == paused

\* faulty variant: the authed lookup is dropped, any cross-chain call passes
AuthorizedAnyXCall(isX, src, sender) == isX

\* require(isXCall() && authed[xmsg.sourceChainId][xmsg.sender])
Authorized(isX, src, sender) == isX /\ authed[src][sender]

\* faulty variant: the "already funded" check is dropped
AlreadyFundedNever(total, cur) == FALSE

\* require(total >= funded[recipient][xmsg.sourceChainId]) fails
AlreadyFunded(total, cur) == total < cur

\* faulty variant: the whole total is paid on every request (delta-based settlement)
RemainingWhole(total, cur) == total

\* uint256 amt = total - funded[recipient][xmsg.sourceChainId]
Remaining(total, cur) == total - cur

\* recipient.call{ value: amt }(""): fails when the fund cannot cover amt or the
\* recipient does not accept (reverts, runs out of gas)
TransferOk(amt, accepts) == accepts /\ amt <= fundBalance

\* faulty variant: funded is updated whether or not the transfer succeeded
FundedAfterAlways(cur, amt, success) == cur + amt

\* faulty variant: the success test is inverted
FundedAfterInverted(cur, amt, success) == IF success THEN cur ELSE cur + amt

\* faulty variant: funded is assigned the delta instead of being increased by it
FundedAfterSet(cur, amt, success) == IF success THEN amt ELSE cur

\* if (success) funded[recipient][xmsg.sourceChainId] += amt
FundedAfter(cur, amt, success) == IF success THEN cur + amt ELSE cur

Watched(isX, src, recipient) == isX /\ src = WatchChain /\ recipient = WatchRecipient

tryWithdrawRemaining(isX, src, sender, recipient, total, accepts) ==
    LET gate    == PauseGate(fundPaused)
        authOK  == Authorized(isX, src, sender)
        cur     == IF isX THEN funded[recipient][src] ELSE 0
        result  == IF ~gate THEN "ExpectedPause"
                   ELSE IF ~authOK THEN "unauthorized"
                   ELSE IF AlreadyFunded(total, cur) THEN "already funded"
                   ELSE "ok"
        amt     == IF result = "ok" THEN Remaining(total, cur) ELSE 0
        success == result = "ok" /\ TransferOk(amt, accepts)
    IN  /\ lastCall' = [result |-> result, amt |-> amt, success |-> success]
        /\ IF result = "ok"
           THEN /\ funded' = [funded EXCEPT ![recipient][src] = FundedAfter(cur, amt, success)]
                /\ fundBalance' = IF success THEN fundBalance - amt ELSE fundBalance
                /\ paid' = IF success THEN [paid EXCEPT ![recipient][src] = @ + amt] ELSE paid
           ELSE UNCHANGED <<funded, fundBalance, paid>>
        /\ IF Watched(isX, src, recipient)
           THEN /\ lastTotal' = total
                /\ mono' = (mono /\ total >= lastTotal)
           ELSE UNCHANGED <<lastTotal, mono>>
        /\ UNCHANGED <<authed, fundPaused>>

\* tryWithdrawRemaining when the recipient's receiving code, run by
\* recipient.call{ value: amt }(""), has a second request for the same key
\* executed before it returns and then accepts: the function has no
\* reentrancy guard, and funded is written (line 56) after the call (line 46).
\* The inner request runs the same code against the state the outer one has
\* left so far: funded not yet increased, the balance less the outer amt.
tryWithdrawRemainingReentered(src, sender, recipient, total, sender2, total2, accepts2) ==
    LET cur      == funded[recipient][src]
        amt      == Remaining(total, cur)
        result2  == IF ~PauseGate(fundPaused) THEN "ExpectedPause"
                    ELSE IF ~Authorized(TRUE, src, sender2) THEN "unauthorized"
                    ELSE IF AlreadyFunded(total2, cur) THEN "already funded"
                    ELSE "ok"
        amt2     == IF result2 = "ok" THEN Remaining(total2, cur) ELSE 0
        success2 == result2 = "ok" /\ accepts2 /\ amt2 <= fundBalance - amt
        mid      == IF result2 = "ok" THEN FundedAfter(cur, amt2, success2) ELSE cur
        out2     == IF success2 THEN amt2 ELSE 0
    IN  /\ PauseGate(fundPaused)
        /\ Authorized(TRUE, src, sender)
        /\ ~AlreadyFunded(total, cur)
        /\ TransferOk(amt, TRUE)
        /\ lastCall' = [result |-> "ok", amt |-> amt, success |-> TRUE]
        /\ funded' = [funded EXCEPT ![recipient][src] = FundedAfter(mid, amt, TRUE)]
        /\ fundBalance' = fundBalance - amt - out2
        /\ paid' = [paid EXCEPT ![recipient][src] = @ + amt + out2]
        /\ IF Watched(TRUE, src, recipient)
           THEN /\ lastTotal' = total2
                /\ mono' = (mono /\ total >= lastTotal /\ total2 >= total)
           ELSE UNCHANGED <<lastTotal, mono>>
        /\ UNCHANGED <<authed, fundPaused>>

\* function authorize(uint64 chainID, address addr) external onlyOwner
authorize(caller, chainID, addr) ==
    /\ IF caller = Owner
       THEN authed' = [authed EXCEPT ![chainID][addr] = TRUE]
       ELSE UNCHANGED authed
    /\ UNCHANGED <<funded, fundPaused, fundBalance, paid, lastCall, lastTotal, mono>>

\* function pause() external onlyOwner { _pause(); }   (_pause is whenNotPaused)
pause(caller) ==
    /\ IF caller = Owner /\ ~fundPaused
       THEN fundPaused' = TRUE
       ELSE UNCHANGED fundPaused
    /\ UNCHANGED <<authed, funded, fundBalance, paid, lastCall, lastTotal, mono>>

\* function unpause() external onlyOwner { _unpause(); }   (_unpause is whenPaused)
unpause(caller) ==
    /\ IF caller = Owner /\ fundPaused
       THEN fundPaused' = FALSE
       ELSE UNCHANGED fundPaused
    /\ UNCHANGED <<authed, funded, fundBalance, paid, lastCall, lastTotal, mono>>

\* receive() external payable { }
receive(value) ==
    /\ fundBalance + value <= MaxBalance
    /\ fundBalance' = fundBalance + value
    /\ UNCHANGED <<authed, funded, fundPaused, paid, lastCall, lastTotal, mono>>

\* ------------------------------------------------------------------------
\* Callers of the fund
\* ------------------------------------------------------------------------

\* an xcall from any contract on any chain, executed by the portal on Omni
ForeignXCall ==
    \E k \in Keys, sender \in Senders, total \in Totals, accepts \in BOOLEAN :
        /\ tryWithdrawRemaining(TRUE, k[2], sender, k[1], total, accepts)
        /\ UNCHANGED <<exVars, goVars>>

\* a plain call on Omni, not made by the portal: omni.xmsg() is the zero message
DirectCall ==
    \E r \in Recipients, total \in Totals, accepts \in BOOLEAN :
        /\ tryWithdrawRemaining(FALSE, NoChain, ZeroAddr, r, total, accepts)
        /\ UNCHANGED <<exVars, goVars>>

\* an xcall whose recipient has the portal execute another request for its key
\* while it is being paid
ReenteredXCall ==
    \E k \in {<<WatchRecipient, WatchChain>>}, sender \in Senders, total \in Totals,
       sender2 \in Senders, total2 \in Totals, accepts2 \in BOOLEAN :
        /\ tryWithdrawRemainingReentered(k[2], sender, k[1], total, sender2, total2, accepts2)
        /\ UNCHANGED <<exVars, goVars>>

\* the requests for one key, as the exchange's retries resubmit them
WatchedXCall ==
    \E sender \in Senders, total \in Totals, accepts \in BOOLEAN :
        /\ tryWithdrawRemaining(TRUE, WatchChain, sender, WatchRecipient, total, accepts)
        /\ UNCHANGED <<exVars, goVars>>

\* a request for that key carrying the largest total whose transfer succeeds
SettleLargest ==
    \E sender \in Senders :
        /\ tryWithdrawRemaining(TRUE, WatchChain, sender, WatchRecipient, MaxTotal, TRUE)
        /\ lastCall'.success
        /\ UNCHANGED <<exVars, goVars>>

Authorize ==
    \E caller \in Callers, c \in Chains, a \in Senders :
        authorize(caller, c, a) /\ UNCHANGED <<exVars, goVars>>
Pause == \E caller \in Callers : pause(caller) /\ UNCHANGED <<exVars, goVars>>
Unpause == \E caller \in Callers : unpause(caller) /\ UNCHANGED <<exVars, goVars>>
Receive == \E v \in TopUps : receive(v) /\ UNCHANGED <<exVars, goVars>>

\* state after OmniXFund.initialize
InitFund ==
    /\ authed = [c \in Chains |-> [a \in Senders |-> FALSE]]
    /\ funded = [r \in Recipients |-> [c \in Chains |-> 0]]
    /\ fundPaused = FALSE
    /\ fundBalance = 0
    /\ paid = [r \in Recipients |-> [c \in Chains |-> 0]]
    /\ lastCall = NoCall
    /\ lastTotal = -1
    /\ mono = TRUE

NextFund == ForeignXCall \/ DirectCall \/ Authorize \/ Pause \/ Unpause \/ Receive


\* ------------------------------------------------------------------------
\* OmniGasExchange
\* ------------------------------------------------------------------------
PCT_CUT_DENOM == 1000
CONVERSION_RATE_DENOM == 1000000

\* inputs of the exchange's operations and of its oracle
SwapValues == {50, 100, 1000, 1200}
\* the deposits made while the whole system runs: fee only (a retry) and one swappable amount
SystemSwapValues == {50, 100, 500}
MaxSwaps == {0, 500, 1000}
PctCuts == {0, 50, 1000}
FundAddrs == {ZeroAddr, FundAddr}
AllFundAddrs == {ZeroAddr, FundAddr, FundAddr2}
\* the deposits made while the owner reconfigures or the pricing changes
AdminSwapValues == {50, 600, 1000}
FeeSwapValues == {500}
Rates == {500000, 1000000}
\* what quotes are asked for, and the rates and cuts they are asked under
QuoteAmounts == {0, 1, 2, 100, 101, 855, 1000}
QuoteRates == {500000, 1000000, 3000000}
QuotePcts == {0, 50, 333}
Fees == {100, 200}
Discounts == {0, 1}
MaxSwapped == 1000

NoSwap == [recipient |-> ZeroAddr, paid |-> 0, fee |-> 0, cut |-> 0, amtOMNI |-> 0,
           xfee |-> 0, result |-> "none"]

\* The arguments of OmniXFund.tryWithdrawRemaining(address, uint256) are encoded
\* as 20 address bytes and 32 amount bytes; what the pricing can tell apart is
\* how many of these 52 bytes are zero.
AddrBytes == 20
WordBytes == 32

\* number of zero bytes among the 20 bytes of each recipient's address
AddrZeroBytes == [r \in Recipients |-> IF r = "alice" THEN 0 ELSE 1]

\* number of non-zero bytes of n written in base 256
RECURSIVE NonZeroBytes(_)
NonZeroBytes(n) ==
    IF n <= 0 THEN 0
    ELSE (IF n % 256 = 0 THEN 0 ELSE 1) + NonZeroBytes(n \div 256)

\* zero bytes of abi.encodeCall(OmniXFund.tryWithdrawRemaining, (recipient, total))
WithdrawZeroBytes(recipient, total) == AddrZeroBytes[recipient] + (WordBytes - NonZeroBytes(total))

\* zero bytes of the same call with address(type(uint160).max), type(uint256).max
MaxArgsZeroBytes == 0

\* feeFor(omniChainId(), data, WITHDRAW_XCALL_GAS) for call data with the given
\* number of zero bytes in its arguments
feeFor(zeroBytes) == fee - discount * zeroBytes

\* faulty variant: the quote is taken for an all-zero recipient and amount
swapFeeZeroArgs == feeFor(AddrBytes + WordBytes)

\* swapFee(): feeFor the withdraw xcall with maximal placeholder arguments
swapFee == feeFor(MaxArgsZeroBytes)

\* faulty variant: the cut is taken on the deposit before the fee is subtracted
CutOnGross(amtETH) == ((amtETH + swapFee) * pctCut) \div PCT_CUT_DENOM

\* amtETH * pctCut / PCT_CUT_DENOM
Cut(amtETH) == (amtETH * pctCut) \div PCT_CUT_DENOM

\* ethToOmni: amtETH * oracle.toNativeRate(omniChainId()) / oracle.CONVERSION_RATE_DENOM()
ethToOmni(amtETH) == (amtETH * rate) \div CONVERSION_RATE_DENOM

\* omniToEth: amtOMNI * oracle.CONVERSION_RATE_DENOM() / oracle.toNativeRate(omniChainId())
omniToEth(amtOMNI) == (amtOMNI * CONVERSION_RATE_DENOM) \div rate

\* faulty variant: the fee is added before the cut is undone
ethNeededForFeeFirst(amtOMNI) ==
    ((omniToEth(amtOMNI) + swapFee) * PCT_CUT_DENOM) \div (PCT_CUT_DENOM - pctCut)

\* ethNeededFor(amtOMNI): the conversion, the cut undone, the fee added
ethNeededFor(amtOMNI) ==
    (omniToEth(amtOMNI) * PCT_CUT_DENOM) \div (PCT_CUT_DENOM - pctCut) + swapFee

\* simSwap(amtETH): (amount, success, reason), a view
simSwap(amtETH) ==
    LET f == swapFee IN
    IF amtETH < f THEN [amt |-> 0, ok |-> FALSE, reason |-> "insufficient fee"]
    ELSE LET net == amtETH - f IN
         IF net > maxSwap THEN [amt |-> 0, ok |-> FALSE, reason |-> "over max"]
         ELSE [amt |-> ethToOmni(net - (net * pctCut) \div PCT_CUT_DENOM), ok |-> TRUE, reason |-> ""]

\* faulty variant: no limit on what one swap converts
OverMaxNever(amtETH) == FALSE

\* require(amtETH <= maxSwap, "OmniGasEx: over max"), negated
OverMax(amtETH) == amtETH > maxSwap

\* faulty variant: the value must exceed the fee
InsufficientFeeInclusive(value, f) == value <= f

\* require(msg.value >= fee, "OmniGasEx: insufficient fee"), negated
InsufficientFee(value, f) == value < f

\* faulty variant: the ledger entry is overwritten with the latest amount
SwappedAfterLatest(prev, amtOMNI) == amtOMNI

\* swapped[recipient] += amtOMNI
SwappedAfter(prev, amtOMNI) == prev + amtOMNI

\* swap(recipient) payable whenNotPaused, called with msg.value = value
swap(recipient, value) ==
    LET f       == swapFee
        net     == value - f
        cut     == Cut(net)
        amtOMNI == ethToOmni(net - cut)
        result  == IF exPaused THEN "EnforcedPause"
                   ELSE IF InsufficientFee(value, f) THEN "insufficient fee"
                   ELSE IF OverMax(net) THEN "over max"
                   ELSE "ok"
    IN  IF result = "ok"
        THEN /\ SwappedAfter(swapped[recipient], amtOMNI) <= MaxSwapped
             /\ swapped' = [swapped EXCEPT ![recipient] = SwappedAfter(@, amtOMNI)]
             /\ channel' = channel \cup {[to |-> fund, recipient |-> recipient,
                                          total |-> swapped'[recipient]]}
             /\ lastSwap' = [recipient |-> recipient, paid |-> value, fee |-> f, cut |-> cut,
                             amtOMNI |-> amtOMNI,
                             xfee |-> feeFor(WithdrawZeroBytes(recipient, swapped'[recipient])),
                             result |-> "ok"]
             /\ UNCHANGED <<fund, maxSwap, pctCut, exPaused, rate, fee, discount, quote>>
        ELSE /\ lastSwap' = [NoSwap EXCEPT !.recipient = recipient, !.paid = value,
                                           !.result = result]
             /\ UNCHANGED <<fund, maxSwap, pctCut, swapped, exPaused, rate, fee, discount, channel, quote>>

\* faulty variant: a cut of the whole denominator is accepted
setPctCutInclusive(caller, pct) ==
    /\ pctCut' = IF caller = Owner /\ pct <= PCT_CUT_DENOM THEN pct ELSE pctCut
    /\ UNCHANGED <<fund, maxSwap, swapped, exPaused, rate, fee, discount, channel, lastSwap, quote>>

\* setPctCut(pct) onlyOwner -> _setPctCut: require(pct < PCT_CUT_DENOM)
setPctCut(caller, pct) ==
    /\ pctCut' = IF caller = Owner /\ pct < PCT_CUT_DENOM THEN pct ELSE pctCut
    /\ UNCHANGED <<fund, maxSwap, swapped, exPaused, rate, fee, discount, channel, lastSwap, quote>>

\* setMaxSwap(max) onlyOwner -> _setMaxSwap: require(max > 0)
setMaxSwap(caller, max) ==
    /\ maxSwap' = IF caller = Owner /\ max > 0 THEN max ELSE maxSwap
    /\ UNCHANGED <<fund, pctCut, swapped, exPaused, rate, fee, discount, channel, lastSwap, quote>>

\* setOmniXFund(omnifund_) onlyOwner -> _setFund: require(fund_ != address(0))
setOmniXFund(caller, fund_) ==
    /\ fund' = IF caller = Owner /\ fund_ # ZeroAddr THEN fund_ ELSE fund
    /\ UNCHANGED <<maxSwap, pctCut, swapped, exPaused, rate, fee, discount, channel, lastSwap, quote>>

\* OmniGasExchange.pause() / unpause(), onlyOwner
exPause(caller) ==
    /\ exPaused' = IF caller = Owner /\ ~exPaused THEN TRUE ELSE exPaused
    /\ UNCHANGED <<fund, maxSwap, pctCut, swapped, rate, fee, discount, channel, lastSwap, quote>>

exUnpause(caller) ==
    /\ exPaused' = IF caller = Owner /\ exPaused THEN FALSE ELSE exPaused
    /\ UNCHANGED <<fund, maxSwap, pctCut, swapped, rate, fee, discount, channel, lastSwap, quote>>

\* the oracle's conversion rate and the portal's fee change outside the exchange
oracleRate(r) ==
    /\ rate' = r
    /\ UNCHANGED <<fund, maxSwap, pctCut, swapped, exPaused, fee, discount, channel, lastSwap, quote>>

oracleFee(f) ==
    /\ fee' = f
    /\ UNCHANGED <<fund, maxSwap, pctCut, swapped, exPaused, rate, discount, channel, lastSwap, quote>>

\* the portal's pricing starts or stops discounting zero bytes of call data
oracleDiscount(d) ==
    /\ discount' = d
    /\ UNCHANGED <<fund, maxSwap, pctCut, swapped, exPaused, rate, fee, channel, lastSwap, quote>>

\* XGasSwap._swapOrRefund(refundTo, recipient, amtETH), as reached through
\* swapForOMNIOrRefund: when simSwap reports failure the value is sent to
\* refundTo with transfer (a transfer refundTo does not accept reverts the
\* call), otherwise _swap calls the exchange's swap with the value, and a
\* revert of swap reverts the whole call
swapForOMNIOrRefund(refundTo, recipient, amtETH, accepts) ==
    IF ~simSwap(amtETH).ok
    THEN /\ lastSwap' = [NoSwap EXCEPT !.recipient = refundTo, !.paid = amtETH,
                                       !.result = IF accepts THEN "Refunded" ELSE "refund failed"]
         /\ UNCHANGED <<fund, maxSwap, pctCut, swapped, exPaused, rate, fee, discount, channel, quote>>
    ELSE swap(recipient, amtETH)

\* a call of the view ethNeededFor
NoQuote == [amtOMNI |-> 0, amtETH |-> 0]
ethNeededForCall(amtOMNI) ==
    /\ quote' = [amtOMNI |-> amtOMNI, amtETH |-> ethNeededFor(amtOMNI)]
    /\ UNCHANGED <<fund, maxSwap, pctCut, swapped, exPaused, rate, fee, discount, channel, lastSwap>>

SwapFor(Rs, Vs) == \E r \in Rs, v \in Vs : swap(r, v) /\ UNCHANGED <<fundVars, goVars>>
SwapForOMNIOrRefund ==
    \E refundTo \in Recipients, r \in Recipients, v \in SwapValues, accepts \in BOOLEAN :
        swapForOMNIOrRefund(refundTo, r, v, accepts) /\ UNCHANGED <<fundVars, goVars>>
SetPctCutTo(Ps) == \E c \in Callers, pct \in Ps : setPctCut(c, pct) /\ UNCHANGED <<fundVars, goVars>>
SetPctCut == SetPctCutTo(PctCuts)
SetMaxSwap == \E c \in Callers, max \in MaxSwaps : setMaxSwap(c, max) /\ UNCHANGED <<fundVars, goVars>>
SetOmniXFundTo(As) == \E c \in Callers, a \in As : setOmniXFund(c, a) /\ UNCHANGED <<fundVars, goVars>>
SetOmniXFund == SetOmniXFundTo(FundAddrs)
ExPause == \E c \in Callers : exPause(c) /\ UNCHANGED <<fundVars, goVars>>
ExUnpause == \E c \in Callers : exUnpause(c) /\ UNCHANGED <<fundVars, goVars>>
OracleRateFrom(Rs) == \E r \in Rs : oracleRate(r) /\ UNCHANGED <<fundVars, goVars>>
OracleRate == OracleRateFrom(Rates)
EthNeededFor == \E amtOMNI \in QuoteAmounts : ethNeededForCall(amtOMNI) /\ UNCHANGED <<fundVars, goVars>>
OracleFee == \E f \in Fees : oracleFee(f) /\ UNCHANGED <<fundVars, goVars>>
OracleDiscount == \E d \in Discounts : oracleDiscount(d) /\ UNCHANGED <<fundVars, goVars>>

\* state after OmniGasExchange.initialize(fund, portal, owner, maxSwap = 1000, pctCut = 50)
InitEx ==
    /\ fund = FundAddr
    /\ maxSwap = 1000
    /\ pctCut = 50
    /\ swapped = [r \in Recipients |-> 0]
    /\ exPaused = FALSE
    /\ rate = CONVERSION_RATE_DENOM
    /\ fee = 100
    /\ discount = 0
    /\ channel = {}
    /\ lastSwap = NoSwap
    /\ quote = NoQuote

\* ------------------------------------------------------------------------
\* lib/netconf: Network, Chain, and their JSON form
\* ------------------------------------------------------------------------
\* common.Address: AddressLength bytes
AddressLength == 20
ZeroAddress == [i \in 1..AddressLength |-> 0]

Rep(c, n) == [i \in 1..n |-> c]

\* hex digits; a character that is not one has value -1
LowerHex == <<"0", "1", "2", "3", "4", "5", "6", "7", "8", "9", "a", "b", "c", "d", "e", "f">>
UpperHex == <<"0", "1", "2", "3", "4", "5", "6", "7", "8", "9", "A", "B", "C", "D", "E", "F">>
HexDigitVal ==
    [c \in {LowerHex[i] : i \in 1..16} \cup {UpperHex[i] : i \in 1..16} |->
        IF \E i \in 1..16 : LowerHex[i] = c THEN (CHOOSE i \in 1..16 : LowerHex[i] = c) - 1
        ELSE (CHOOSE i \in 1..16 : UpperHex[i] = c) - 1]
HexVal(c) == IF c \in DOMAIN HexDigitVal THEN HexDigitVal[c] ELSE -1

\* number of leading pairs of u, from pair i on, that are two hex digits
RECURSIVE DecodedFrom(_, _)
DecodedFrom(u, i) ==
    IF 2 * i > Len(u) \/ HexVal(u[2 * i - 1]) < 0 \/ HexVal(u[2 * i]) < 0 THEN i - 1
    ELSE DecodedFrom(u, i + 1)

\* common.FromHex: drop a 0x / 0X prefix, pad an odd length with a leading "0",
\* then Hex2Bytes, which drops the decoder's error and keeps the bytes decoded
\* before the first invalid character
FromHex(str) ==
    LET t == IF Len(str) >= 2 /\ str[1] = "0" /\ str[2] \in {"x", "X"}
             THEN SubSeq(str, 3, Len(str)) ELSE str
        u == IF Len(t) % 2 = 1 THEN <<"0">> \o t ELSE t
        n == DecodedFrom(u, 1)
    IN  [i \in 1..n |-> 16 * HexVal(u[2 * i - 1]) + HexVal(u[2 * i])]

\* common.BytesToAddress: keep the last AddressLength bytes, pad on the left
BytesToAddress(b) ==
    LET c == IF Len(b) > AddressLength THEN SubSeq(b, Len(b) - AddressLength + 1, Len(b)) ELSE b
        pad == AddressLength - Len(c)
    IN  [i \in 1..AddressLength |-> IF i <= pad THEN 0 ELSE c[i - pad]]

\* common.HexToAddress(s) = BytesToAddress(FromHex(s)); it has no error result
HexToAddress(str) == BytesToAddress(FromHex(str))

\* RECURSIVE sum of a sequence of numbers
RECURSIVE SumSeq(_)
SumSeq(q) == IF q = <<>> THEN 0 ELSE Head(q) + SumSeq(Tail(q))

\* Address.Hex(): "0x" and two digits per byte; a letter digit is upper case
\* where the checksum hash says so. The hash (Keccak256 of the lower-case
\* digits) is stood for by the parity of the byte sum plus the position.
Hex(a) ==
    LET nib(i) == IF i % 2 = 1 THEN a[(i + 1) \div 2] \div 16 ELSE a[i \div 2] % 16
        sum    == SumSeq(a)
        up(i)  == (sum + i) % 2 = 1
    IN  <<"0", "x">> \o [i \in 1..(2 * AddressLength) |->
                           IF up(i) THEN UpperHex[nib(i) + 1] ELSE LowerHex[nib(i) + 1]]

\* A duration string is a sequence of terms, each a decimal number w.f (f in
\* thousandths; w = -1 when there are no digits) followed by a unit (u = ""
\* when there is none). time.Duration is counted in milliseconds.
Term(w, f, u) == [w |-> w, f |-> f, u |-> u]
UnitMs == [u \in {"ms", "s", "m", "h"} |->
             IF u = "ms" THEN 1 ELSE IF u = "s" THEN 1000 ELSE IF u = "m" THEN 60000 ELSE 3600000]

RECURSIVE TermsMs(_)
TermsMs(q) ==
    IF q = <<>> THEN 0
    ELSE LET unit == UnitMs[Head(q).u]
         IN  Head(q).w * unit
             + (IF unit >= 1000 THEN Head(q).f * (unit \div 1000) ELSE (Head(q).f * unit) \div 1000)
             + TermsMs(Tail(q))

\* time.ParseDuration: "0" is zero; the empty string, a term without digits,
\* without unit or with an unknown unit is an error; else the sum of the terms
ParseDuration(str) ==
    IF str = <<Term(0, 0, "")>> THEN [err |-> FALSE, d |-> 0]
    ELSE IF str = <<>> THEN [err |-> TRUE, d |-> 0]
    ELSE IF \E i \in 1..Len(str) : str[i].w < 0 \/ str[i].u \notin DOMAIN UnitMs
         THEN [err |-> TRUE, d |-> 0]
    ELSE [err |-> FALSE, d |-> TermsMs(str)]

\* Duration.String(): "0s"; below a second "<n>ms"; else [<h>h][<m>m]<s>s with
\* the fraction on the seconds and the larger units present once non-zero
DurationString(d) ==
    IF d = 0 THEN <<Term(0, 0, "s")>>
    ELSE IF d < 1000 THEN <<Term(d, 0, "ms")>>
    ELSE LET secs == d \div 1000
             h == secs \div 3600
             m == (secs \div 60) % 60
         IN  (IF h > 0 THEN <<Term(h, 0, "h")>> ELSE <<>>)
             \o (IF secs \div 60 > 0 THEN <<Term(m, 0, "m")>> ELSE <<>>)
             \o <<Term(secs % 60, d % 1000, "s")>>

\* const StratFinalized / StratLatest / StratSafe, var allStrats
StratFinalized == "finalized"
StratLatest == "latest"
StratSafe == "safe"
allStrats == {StratFinalized, StratLatest, StratSafe}

\* FinalizationStrat.Verify(): an error unless the strategy is in allStrats
StratVerify(h) == h \notin allStrats

\* Chain{} and Network{}, the zero values
ZeroChain == [ID |-> 0, Name |-> "", PortalAddress |-> ZeroAddress, DeployHeight |-> 0,
              BlockPeriod |-> 0, FinalizationStrat |-> ""]
ZeroNetwork == [ID |-> "", Chains |-> <<>>]

\* ID.Verify(): an error unless the id is one of the enumerated networks
allIDs == {"simnet", "testnet", "staging", "mainnet"}
IDVerify(id) == id \notin allIDs

\* the static table of consensus chain ids, one per network identity
omniConsensusChainID == [id \in allIDs |->
    IF id = "simnet" THEN 1 ELSE IF id = "testnet" THEN 11 ELSE IF id = "staging" THEN 21 ELSE 31]

\* IsOmniConsensus(network, chainID)
IsOmniConsensus(id, chainID) == id \in allIDs /\ omniConsensusChainID[id] = chainID

\* Network.Validate(): TRUE when it returns an error
Validate(n) == IDVerify(n.ID)

\* faulty variant: every chain is returned
EVMChainsAll(n) == n.Chains

\* Network.EVMChains(): the loop appends every chain that is not the consensus chain
RECURSIVE EVMChainsFrom(_, _)
EVMChainsFrom(id, chains) ==
    IF chains = <<>> THEN <<>>
    ELSE IF IsOmniConsensus(id, Head(chains).ID) THEN EVMChainsFrom(id, Tail(chains))
    ELSE <<Head(chains)>> \o EVMChainsFrom(id, Tail(chains))

EVMChains(n) == EVMChainsFrom(n.ID, n.Chains)

\* Network.ChainIDs()
ChainIDs(n) == [i \in 1..Len(n.Chains) |-> n.Chains[i].ID]

\* Network.ChainNamesByIDs(): resp[chain.ID] = chain.Name in list order, so the
\* last chain with an id gives its name
ChainNamesByIDs(n) ==
    [id \in {n.Chains[i].ID : i \in 1..Len(n.Chains)} |->
        LET last == CHOOSE i \in 1..Len(n.Chains) :
                       /\ n.Chains[i].ID = id
                       /\ \A j \in (i + 1)..Len(n.Chains) : n.Chains[j].ID # id
        IN  n.Chains[last].Name]

\* Network.Chain(id): the first chain with the id, or (Chain{}, false)
\* faulty variant: a miss is reported as found
ChainFoundAlways(n, id) ==
    IF \E i \in 1..Len(n.Chains) : n.Chains[i].ID = id
    THEN LET first == CHOOSE i \in 1..Len(n.Chains) :
                         /\ n.Chains[i].ID = id
                         /\ \A j \in 1..(i - 1) : n.Chains[j].ID # id
         IN  [chain |-> n.Chains[first], ok |-> TRUE]
    ELSE [chain |-> ZeroChain, ok |-> TRUE]

Chain(n, id) ==
    IF \E i \in 1..Len(n.Chains) : n.Chains[i].ID = id
    THEN LET first == CHOOSE i \in 1..Len(n.Chains) :
                         /\ n.Chains[i].ID = id
                         /\ \A j \in 1..(i - 1) : n.Chains[j].ID # id
         IN  [chain |-> n.Chains[first], ok |-> TRUE]
    ELSE [chain |-> ZeroChain, ok |-> FALSE]

\* Network.OmniConsensusChain(): the first chain classified as consensus chain
OmniConsensusChain(n) ==
    IF \E i \in 1..Len(n.Chains) : IsOmniConsensus(n.ID, n.Chains[i].ID)
    THEN LET first == CHOOSE i \in 1..Len(n.Chains) :
                         /\ IsOmniConsensus(n.ID, n.Chains[i].ID)
                         /\ \A j \in 1..(i - 1) : ~IsOmniConsensus(n.ID, n.Chains[j].ID)
         IN  [chain |-> n.Chains[first], ok |-> TRUE]
    ELSE [chain |-> ZeroChain, ok |-> FALSE]

\* faulty variant: the zero address is written as its hex literal
MarshalJSONNoEmpty(c) ==
    [ID |-> c.ID, Name |-> c.Name, RPCURL |-> "", PortalAddress |-> Hex(c.PortalAddress),
     DeployHeight |-> c.DeployHeight, BlockPeriod |-> DurationString(c.BlockPeriod),
     FinalizationStrat |-> c.FinalizationStrat]

\* Chain.MarshalJSON(): the chainJSON it encodes
MarshalJSON(c) ==
    [ID |-> c.ID, Name |-> c.Name, RPCURL |-> "",
     PortalAddress |-> IF c.PortalAddress = ZeroAddress THEN <<>> ELSE Hex(c.PortalAddress),
     DeployHeight |-> c.DeployHeight, BlockPeriod |-> DurationString(c.BlockPeriod),
     FinalizationStrat |-> c.FinalizationStrat]

\* Chain.UnmarshalJSON(): from the decoded chainJSON to (error, Chain)
UnmarshalJSON(cj) ==
    LET blockPeriod == ParseDuration(cj.BlockPeriod)
        portalAddr  == IF cj.PortalAddress # <<>> THEN HexToAddress(cj.PortalAddress)
                       ELSE ZeroAddress
    IN  IF blockPeriod.err THEN [err |-> TRUE, chain |-> ZeroChain]
        ELSE [err |-> FALSE,
              chain |-> [ID |-> cj.ID, Name |-> cj.Name, PortalAddress |-> portalAddr,
                         DeployHeight |-> cj.DeployHeight, BlockPeriod |-> blockPeriod.d,
                         FinalizationStrat |-> cj.FinalizationStrat]]

\* the file content and call result before anything is there
NoFile == [exists |-> FALSE, ID |-> "", Chains |-> <<>>]
NoOut == [op |-> "none", err |-> FALSE, val |-> <<>>]

\* Load(path): read the file, decode the network and every chain entry; any
\* error returns Network{} and the error
Load ==
    LET parsed == [i \in 1..Len(file.Chains) |-> UnmarshalJSON(file.Chains[i])]
        failed == ~file.exists \/ \E i \in 1..Len(parsed) : parsed[i].err
    IN  /\ network' = IF failed THEN ZeroNetwork
                      ELSE [ID |-> file.ID, Chains |-> [i \in 1..Len(parsed) |-> parsed[i].chain]]
        /\ out' = [op |-> "Load", err |-> failed, val |-> <<>>]
        /\ UNCHANGED file

\* Save(ctx, network, path): encode the network with every chain's MarshalJSON
\* and write the file
Save ==
    /\ file' = [exists |-> TRUE, ID |-> network.ID,
                Chains |-> [i \in 1..Len(network.Chains) |-> MarshalJSON(network.Chains[i])]]
    /\ out' = [op |-> "Save", err |-> FALSE, val |-> <<>>]
    /\ UNCHANGED network

\* the queries of a Network, each recording what it returned
CallValidate ==
    /\ out' = [op |-> "Validate", err |-> Validate(network), val |-> <<>>]
    /\ UNCHANGED <<file, network>>

CallEVMChains ==
    /\ out' = [op |-> "EVMChains", err |-> FALSE, val |-> EVMChains(network)]
    /\ UNCHANGED <<file, network>>

CallChainIDs ==
    /\ out' = [op |-> "ChainIDs", err |-> FALSE, val |-> ChainIDs(network)]
    /\ UNCHANGED <<file, network>>

CallChainNamesByIDs ==
    /\ out' = [op |-> "ChainNamesByIDs", err |-> FALSE, val |-> ChainNamesByIDs(network)]
    /\ UNCHANGED <<file, network>>

CallOmniConsensusChain ==
    /\ out' = [op |-> "OmniConsensusChain", err |-> FALSE, val |-> OmniConsensusChain(network)]
    /\ UNCHANGED <<file, network>>

callChain(id) ==
    /\ out' = [op |-> "Chain", err |-> FALSE, val |-> Chain(network, id)]
    /\ UNCHANGED <<file, network>>

\* the ids Chain is asked for
ChainQueryIDs == {1, 2, 3, 4}
CallChain == \E id \in ChainQueryIDs : callChain(id)

\* Networks a process may hold: the chains of the pool in any order, repeats
\* included, under a valid or an unknown network id
MaxChains == 3
AddrA == [i \in 1..AddressLength |-> 170]
AddrB == [i \in 1..AddressLength |-> IF i = AddressLength THEN 1 ELSE 0]
ChainPool ==
    {[ID |-> 1, Name |-> "consensus", PortalAddress |-> ZeroAddress, DeployHeight |-> 0,
      BlockPeriod |-> 1000, FinalizationStrat |-> StratFinalized],
     [ID |-> 2, Name |-> "rollupA", PortalAddress |-> AddrA, DeployHeight |-> 10,
      BlockPeriod |-> 2000, FinalizationStrat |-> StratFinalized],
     [ID |-> 3, Name |-> "rollupB", PortalAddress |-> AddrB, DeployHeight |-> 20,
      BlockPeriod |-> 12000, FinalizationStrat |-> StratLatest],
     [ID |-> 3, Name |-> "rollupC", PortalAddress |-> AddrB, DeployHeight |-> 5,
      BlockPeriod |-> 500, FinalizationStrat |-> "fastest"],
     [ID |-> 11, Name |-> "consensus-testnet", PortalAddress |-> ZeroAddress, DeployHeight |-> 0,
      BlockPeriod |-> 90000, FinalizationStrat |-> StratSafe]}
NetworkIDs == {"simnet", "testnet", "devnet"}
Networks ==
    {[ID |-> id, Chains |-> cs] :
        id \in NetworkIDs, cs \in UNION {[1..n -> ChainPool] : n \in 0..MaxChains}}

\* portal_address strings a configuration file may hold
PortalStrings ==
    {<<>>,
     <<"0", "x">> \o Rep("a", 2 * AddressLength),
     <<"0", "X">> \o Rep("B", 2 * AddressLength),
     Hex(AddrB),
     Rep("1", 2 * AddressLength),
     <<"0", "x", "1">>,
     <<"0", "x">> \o Rep("f", 2 * AddressLength + 2),
     <<"0", "x">> \o Rep("0", 2 * AddressLength),
     <<"0", "x", "z", "z">>,
     <<"0", "x">> \o Rep("1", 2 * AddressLength - 2) \o <<"g", "1">>,
     <<"n", "o", "n", "e">>}

\* block_period strings a configuration file may hold: "", "0", "1s", "1.5s",
\* "2m0s", "500ms", "1h0m0s", "1s1s", "12" (no unit), "1d" (unknown unit),
\* "s" (no digits)
PeriodStrings ==
    {<<>>,
     <<Term(0, 0, "")>>,
     <<Term(1, 0, "s")>>,
     <<Term(1, 500, "s")>>,
     <<Term(2, 0, "m"), Term(0, 0, "s")>>,
     <<Term(500, 0, "ms")>>,
     <<Term(1, 0, "h"), Term(0, 0, "m"), Term(0, 0, "s")>>,
     <<Term(1, 0, "s"), Term(1, 0, "s")>>,
     <<Term(12, 0, "")>>,
     <<Term(1, 0, "d")>>,
     <<Term(-1, 0, "s")>>}

\* chain entries of a file, a well-formed one, and the files: up to one entry of
\* any kind, or the well-formed one followed by one of any kind
EntryPool ==
    {[ID |-> 2, Name |-> "rollupA", RPCURL |-> "", PortalAddress |-> pa, DeployHeight |-> 10,
      BlockPeriod |-> bp, FinalizationStrat |-> st] :
        pa \in PortalStrings, bp \in PeriodStrings, st \in {StratFinalized, "fastest"}}
GoodEntry ==
    [ID |-> 1, Name |-> "consensus", RPCURL |-> "http://localhost:26657", PortalAddress |-> <<>>,
     DeployHeight |-> 0, BlockPeriod |-> <<Term(1, 0, "s")>>, FinalizationStrat |-> StratFinalized]
Files ==
    {NoFile} \cup
    {[exists |-> TRUE, ID |-> "simnet", Chains |-> cs] :
        cs \in {<<>>} \cup {<<e>> : e \in EntryPool} \cup {<<GoodEntry, e>> : e \in EntryPool}}

\* before the network configuration is touched
InitNet ==
    /\ file = NoFile
    /\ network = ZeroNetwork
    /\ out = NoOut

\* ------------------------------------------------------------------------
\* scripts/xmsglatency: the latency correlation engine
\* ------------------------------------------------------------------------
\* evmchain.IDArbSepolia, evmchain.IDOpSepolia
IDArbSepolia == 421614
IDOpSepolia == 11155420

\* connector.Network: the testnet with its consensus chain, the two rollups the
\* tool follows and one it does not
connectorNetwork ==
    [ID |-> "testnet",
     Chains |-> <<[ID |-> 11, Name |-> "omni_consensus", PortalAddress |-> ZeroAddress,
                   DeployHeight |-> 0, BlockPeriod |-> 1000, FinalizationStrat |-> StratFinalized],
                  [ID |-> IDArbSepolia, Name |-> "arb_sepolia", PortalAddress |-> AddrA,
                   DeployHeight |-> 10, BlockPeriod |-> 500, FinalizationStrat |-> StratLatest],
                  [ID |-> 17000, Name |-> "holesky", PortalAddress |-> AddrA,
                   DeployHeight |-> 10, BlockPeriod |-> 12000, FinalizationStrat |-> StratFinalized],
                  [ID |-> IDOpSepolia, Name |-> "op_sepolia", PortalAddress |-> AddrB,
                   DeployHeight |-> 20, BlockPeriod |-> 2000, FinalizationStrat |-> StratLatest]>>]

\* cchain, ok := network.OmniConsensusChain()
cchain == OmniConsensusChain(connectorNetwork).chain

\* xchain.MsgID: the stream (source chain, destination chain) and the offset on it
MsgID(src, dst, offset) == [SourceChainID |-> src, DestChainID |-> dst, StreamOffset |-> offset]
StreamID(id) == [SourceChainID |-> id.SourceChainID, DestChainID |-> id.DestChainID]

\* the messages and receipts blocks may show, and the block timestamps
MsgIDs ==
    {MsgID(IDArbSepolia, IDOpSepolia, 1), MsgID(IDOpSepolia, IDArbSepolia, 1),
     MsgID(11, IDArbSepolia, 1)}
Timestamps == {1, 2}
Blocks ==
    {[Timestamp |-> t, Msgs |-> ms, Receipts |-> rs] :
        t \in Timestamps, ms \in SUBSET MsgIDs, rs \in SUBSET MsgIDs}

\* faulty variant: nothing is filtered out
FromConsensusNever(id) == FALSE

\* msg.SourceChainID == cchain.ID / receipt.SourceChainID == cchain.ID
FromConsensus(id) == id.SourceChainID = cchain.ID

\* faulty variant: a store evicts what the map held
StoreEvicting(m, keys, value) == [k \in keys |-> value]

\* sync.Map.Store(key, value)
Store(m, keys, value) == [k \in DOMAIN m \cup keys |-> IF k \in keys THEN value ELSE m[k]]

\* the StreamAsync callback of a started stream for one block: every message and every receipt not
\* sourced at the consensus chain is stored under its MsgID with the block's
\* timestamp. The stores are concurrent maps and blocks are arbitrary, so the
\* stores of one block are taken as one step.
storeMsgs(msgs, timestamp) ==
    msgStore' = Store(msgStore, {id \in msgs : ~FromConsensus(id)}, timestamp)

storeReceipts(receipts, timestamp) ==
    recStore' = Store(recStore, {id \in receipts : ~FromConsensus(id)}, timestamp)

callback(block) ==
    /\ storeMsgs(block.Msgs, block.Timestamp)
    /\ storeReceipts(block.Receipts, block.Timestamp)
    /\ dirty' = (dirty \/ (pc = "range" /\ (msgStore' # msgStore \/ recStore' # recStore)))
    /\ UNCHANGED <<stats, ranged, rangeStart, streams, chainIdx, pc, cancelled>>

\* the start-up loop over connector.Network.Chains: chains other than the two
\* rollups are skipped; StreamAsync starts the stream or fails, and a failure
\* makes RunE return the error, whatever was started before
startStream(ok) ==
    /\ pc = "subscribe"
    /\ IF chainIdx > Len(connectorNetwork.Chains)
       THEN pc' = "wait" /\ UNCHANGED <<streams, chainIdx>>
       ELSE LET chain == connectorNetwork.Chains[chainIdx]
            IN  IF chain.ID # IDArbSepolia /\ chain.ID # IDOpSepolia
                THEN chainIdx' = chainIdx + 1 /\ UNCHANGED <<streams, pc>>
                ELSE IF ok
                THEN /\ streams' = streams \cup {chain.ID}
                     /\ chainIdx' = chainIdx + 1
                     /\ UNCHANGED pc
                ELSE pc' = "failed" /\ UNCHANGED <<streams, chainIdx>>
    /\ UNCHANGED <<msgStore, recStore, stats, ranged, rangeStart, cancelled, dirty>>

\* latencyStats{} and a ratio n/d in lowest terms with d > 0
RECURSIVE GCD(_, _)
GCD(a, b) == IF b = 0 THEN a ELSE GCD(b, a % b)
Abs(x) == IF x < 0 THEN -x ELSE x
Ratio(n, d) == LET g == GCD(Abs(n), d) IN [n |-> n \div g, d |-> d \div g]
ZeroStats == [totalSent |-> 0, totalReceived |-> 0, avg |-> Ratio(0, 1)]

\* latency(receipt, msg) in seconds
latency(receipt, msg) == receipt - msg

\* faulty variant: the earlier average is not weighted by its count
AvgAfterUnweighted(avg, totalReceived, lat) ==
    Ratio(avg.n + lat * avg.d, avg.d * totalReceived)

\* st.avg = (st.avg*(totalReceived-1) + latency) / totalReceived, totalReceived
\* being the count after the increment
AvgAfter(avg, totalReceived, lat) ==
    Ratio(avg.n * (totalReceived - 1) + lat * avg.d, avg.d * totalReceived)

\* faulty variant: the message is not counted as sent
SentAfterSkipped(totalSent) == totalSent

\* st.totalSent++
SentAfter(totalSent) == totalSent + 1

\* faulty variant: the receipt is never found
ReceiptLoadedNever(id) == FALSE

\* r, ok := recStore.Load(msg.MsgID)
ReceiptLoaded(id) == id \in DOMAIN recStore

\* case <-ticker.C: a new stats map, and msgStore.Range begins
tick ==
    /\ pc = "wait"
    /\ pc' = "range"
    /\ stats' = <<>>
    /\ ranged' = {}
    /\ rangeStart' = DOMAIN msgStore
    /\ dirty' = FALSE
    /\ UNCHANGED <<msgStore, recStore, streams, chainIdx, cancelled>>

\* the Range function for one key not yet visited in this pass, read as the
\* stores are now
rangeVisit(id) ==
    /\ pc = "range"
    /\ id \in DOMAIN msgStore \ ranged
    /\ LET sid  == StreamID(id)
           st   == IF sid \in DOMAIN stats THEN stats[sid] ELSE ZeroStats
           sent == [st EXCEPT !.totalSent = SentAfter(@)]
           new  == IF ReceiptLoaded(id)
                   THEN [sent EXCEPT !.totalReceived = @ + 1,
                                     !.avg = AvgAfter(st.avg, st.totalReceived + 1,
                                                      latency(recStore[id], msgStore[id]))]
                   ELSE sent
       IN  stats' = [k \in DOMAIN stats \cup {sid} |-> IF k = sid THEN new ELSE stats[k]]
    /\ ranged' = ranged \cup {id}
    /\ UNCHANGED <<msgStore, recStore, rangeStart, streams, chainIdx, pc, cancelled, dirty>>

\* Range returns once every key held at its start has been visited; the table
\* is rendered and the loop waits for the next tick
rangeDone ==
    /\ pc = "range"
    /\ rangeStart \subseteq ranged
    /\ pc' = "wait"
    /\ stats' = <<>>
    /\ ranged' = {}
    /\ rangeStart' = {}
    /\ dirty' = FALSE
    /\ UNCHANGED <<msgStore, recStore, streams, chainIdx, cancelled>>

\* faulty variant: the loop waits on, whatever the context says
ctxDoneIgnored ==
    /\ pc = "wait"
    /\ cancelled
    /\ UNCHANGED <<msgStore, recStore, stats, ranged, rangeStart, streams, chainIdx, pc, cancelled, dirty>>

\* case <-ctx.Done(): return nil
ctxDone ==
    /\ pc = "wait"
    /\ cancelled
    /\ pc' = "done"
    /\ UNCHANGED <<msgStore, recStore, stats, ranged, rangeStart, streams, chainIdx, cancelled, dirty>>

\* ctx := cmd.Context(): the context of the command is cancelled, once, while
\* the command runs
cancel ==
    /\ pc \notin {"done", "failed"}
    /\ ~cancelled
    /\ cancelled' = TRUE
    /\ UNCHANGED <<msgStore, recStore, stats, ranged, rangeStart, streams, chainIdx, pc, dirty>>

\* a stream started by StreamAsync(ctx, ...) calls back while the command runs
\* and, as every subscription observes the shared cancellation signal, only
\* until ctx is done
StreamLive == streams # {} /\ pc \notin {"done", "failed"} /\ ~cancelled

StartStream == \E ok \in BOOLEAN : startStream(ok) /\ UNCHANGED <<fundVars, exVars, netVars, shown>>
CallbackFrom(Bs) ==
    \E block \in Bs :
        /\ StreamLive
        /\ callback(block)
        /\ UNCHANGED <<fundVars, exVars, netVars, shown>>
Callback == CallbackFrom(Blocks)
Tick == tick /\ UNCHANGED <<fundVars, exVars, netVars, shown>>
RangeVisitOf(Ids) == \E id \in Ids : rangeVisit(id) /\ UNCHANGED <<fundVars, exVars, netVars, shown>>
RangeVisit == RangeVisitOf(MsgIDs)
RangeDone == rangeDone /\ UNCHANGED <<fundVars, exVars, netVars, shown>>
\* the pass ends, table.Render() shows the statistics, and the observer keeps them
RangeDoneShown == rangeDone /\ shown' = stats /\ UNCHANGED <<fundVars, exVars, netVars>>
CtxDone == ctxDone /\ UNCHANGED <<fundVars, exVars, netVars, shown>>
Cancel == cancel /\ UNCHANGED <<fundVars, exVars, netVars, shown>>

\* RunE after connect.New: empty stores, no stream started
InitLat ==
    /\ msgStore = <<>>
    /\ recStore = <<>>
    /\ stats = <<>>
    /\ ranged = {}
    /\ rangeStart = {}
    /\ streams = {}
    /\ chainIdx = 1
    /\ pc = "subscribe"
    /\ cancelled = FALSE
    /\ dirty = FALSE
    /\ shown = <<>>

\* one stream with three messages and another with one, in blocks of one
\* item: every message at the first timestamp, the receipts of two messages
\* at either timestamp and those of the other two at the second
AggStreamIDs ==
    {MsgID(IDArbSepolia, IDOpSepolia, 1), MsgID(IDArbSepolia, IDOpSepolia, 2),
     MsgID(IDArbSepolia, IDOpSepolia, 3)}
AggOther == MsgID(IDOpSepolia, IDArbSepolia, 1)
AggIDs == AggStreamIDs \cup {AggOther}
AggBlocks ==
    {[Timestamp |-> 1, Msgs |-> {id}, Receipts |-> {}] : id \in AggIDs}
        \cup {[Timestamp |-> 2, Msgs |-> {}, Receipts |-> {id}] : id \in AggIDs}
        \cup {[Timestamp |-> 1, Msgs |-> {}, Receipts |-> {id}] :
                  id \in {i \in AggStreamIDs : i.StreamOffset < 3}}

NextAgg == StartStream \/ CallbackFrom(AggBlocks) \/ Tick \/ RangeVisitOf(AggIDs) \/ RangeDone

\* two messages of one stream and one of another, in blocks of one item:
\* messages at the first timestamp, receipts at the second, and the receipt
\* of the first message at either
TickIDs ==
    {MsgID(IDArbSepolia, IDOpSepolia, 1), MsgID(IDArbSepolia, IDOpSepolia, 2),
     MsgID(IDOpSepolia, IDArbSepolia, 1)}
TickBlocks ==
    {[Timestamp |-> 1, Msgs |-> {id}, Receipts |-> {}] : id \in TickIDs}
        \cup {[Timestamp |-> 2, Msgs |-> {}, Receipts |-> {id}] : id \in TickIDs}
        \cup {[Timestamp |-> 1, Msgs |-> {}, Receipts |-> {MsgID(IDArbSepolia, IDOpSepolia, 1)}]}

NextTicks == StartStream \/ CallbackFrom(TickBlocks) \/ Tick \/ RangeVisitOf(TickIDs)
                \/ RangeDoneShown

NextLat == StartStream \/ Callback \/ Tick \/ RangeVisit \/ RangeDone \/ CtxDone \/ Cancel

Init == InitFund /\ InitEx /\ InitNet /\ InitLat

NextEx == SwapFor({WatchRecipient}, SwapValues) \/ SetPctCut \/ SetMaxSwap \/ SetOmniXFund \/ ExPause \/ ExUnpause
              \/ OracleRate \/ OracleFee

SpecEx == Init /\ [][NextEx]_vars

\* the exchange while its owner reconfigures it
NextAdmin == SwapFor({WatchRecipient}, AdminSwapValues) \/ SetPctCut \/ SetMaxSwap
                \/ SetOmniXFundTo(AllFundAddrs)

SpecAdmin == Init /\ [][NextAdmin]_vars

\* the exchange under a portal whose pricing changes
NextFee == SwapFor(Recipients, FeeSwapValues) \/ OracleFee \/ OracleDiscount

SpecFee == Init /\ [][NextFee]_vars

\* the exchange quoting what a wanted amount of OMNI costs
NextQuote == EthNeededFor \/ OracleRateFrom(QuoteRates) \/ SetPctCutTo(QuotePcts) \/ SetMaxSwap
                \/ OracleFee

SpecQuote == Init /\ [][NextQuote]_vars

\* a contract built on XGasSwap in front of the exchange
NextGasSwap == SwapForOMNIOrRefund \/ SetMaxSwap \/ ExPause \/ ExUnpause

SpecGasSwap == Init /\ [][NextGasSwap]_vars

SpecFund == Init /\ [][NextFund]_vars

\* the fund under retries for one key: the request carrying the largest total
\* keeps being resubmitted, so that whenever its transfer can succeed again
\* and again, it does at some time
NextSettle == WatchedXCall \/ Authorize \/ Pause \/ Unpause \/ Receive

SpecSettle == Init /\ [][NextSettle]_vars /\ SF_vars(SettleLargest)

\* the fund with recipients whose receiving code re-enters it
NextFundReentered == ReenteredXCall \/ Authorize \/ Pause \/ Unpause \/ Receive

SpecFundReentered == Init /\ [][NextFundReentered]_vars

\* a process that holds some Network, or finds some configuration file
InitNetconf ==
    /\ InitFund
    /\ InitEx
    /\ InitLat
    /\ out = NoOut
    /\ \/ file = NoFile /\ network \in Networks
       \/ file \in Files /\ network = ZeroNetwork

NextNet ==
    \/ (Load /\ UNCHANGED <<fundVars, exVars, latVars>>)
    \/ (Save /\ UNCHANGED <<fundVars, exVars, latVars>>)
    \/ (CallValidate /\ UNCHANGED <<fundVars, exVars, latVars>>)
    \/ (CallEVMChains /\ UNCHANGED <<fundVars, exVars, latVars>>)
    \/ (CallChainIDs /\ UNCHANGED <<fundVars, exVars, latVars>>)
    \/ (CallChainNamesByIDs /\ UNCHANGED <<fundVars, exVars, latVars>>)
    \/ (CallOmniConsensusChain /\ UNCHANGED <<fundVars, exVars, latVars>>)
    \/ (CallChain /\ UNCHANGED <<fundVars, exVars, latVars>>)

SpecNet == InitNetconf /\ [][NextNet]_vars

SpecLat == Init /\ [][NextLat]_vars

SpecAgg == Init /\ [][NextAgg]_vars

\* the engine watched from one tick to the next
SpecTicks == Init /\ [][NextTicks]_vars

\* the engine with its scheduling: a pass, once begun, goes on to its end, and
\* the select of the loop, which picks at random among the cases that are
\* ready, does not pass over a done context forever
SpecLatFair ==
    /\ Init
    /\ [][NextLat]_vars
    /\ WF_vars(RangeVisit)
    /\ WF_vars(RangeDone)
    /\ SF_vars(CtxDone)

\* ------------------------------------------------------------------------
\* The whole system: exchange on ExChain, at-least-once channel, fund on Omni
\* ------------------------------------------------------------------------

\* the portal executes an emitted settlement xcall on Omni; nothing removes it
\* from the channel, so it can be delivered again and in any order
Deliver ==
    \E m \in channel, accepts \in BOOLEAN :
        /\ m.to = FundAddr
        /\ tryWithdrawRemaining(TRUE, ExChain, ExchangeAddr, m.recipient, m.total, accepts)
        /\ UNCHANGED <<exVars, goVars>>

\* an xcall to the fund from a contract that is not the exchange
StrangerXCall ==
    \E k \in Keys, total \in Totals, accepts \in BOOLEAN :
        /\ tryWithdrawRemaining(TRUE, k[2], Stranger, k[1], total, accepts)
        /\ UNCHANGED <<exVars, goVars>>

\* the deployment authorizes the exchange, and nothing else, on its chain
AuthorizeExchange ==
    \E caller \in Callers : authorize(caller, ExChain, ExchangeAddr) /\ UNCHANGED <<exVars, goVars>>

Next == SwapFor(Recipients, SystemSwapValues) \/ Deliver \/ StrangerXCall \/ AuthorizeExchange
            \/ Pause \/ Unpause \/ Receive

Spec == Init /\ [][Next]_vars

\* ------------------------------------------------------------------------
\* Properties of OmniXFund
\* ------------------------------------------------------------------------

Ledger == <<funded, fundBalance, paid>>
Rejections == {"ExpectedPause", "unauthorized", "already funded"}

\* C1: for a non-decreasing sequence of totals submitted for one key, whatever
\* each transfer does, the value moved to the recipient equals funded for that
\* key (and for every key), and funded does not exceed the total submitted last.
C1_SumPaidIsFunded ==
    /\ \A r \in Recipients, c \in Chains : paid[r][c] = funded[r][c]
    /\ (mono /\ lastTotal >= 0) => funded[WatchRecipient][WatchChain] <= lastTotal

\* a non-decreasing sequence 100, 150 whose second transfer did not go through
C1_Witness ==
    /\ mono /\ lastTotal = 150
    /\ funded[WatchRecipient][WatchChain] = 100
    /\ paid[WatchRecipient][WatchChain] = 100

\* C2 (as claimed): while the fund is paused every tryWithdrawRemaining is rejected
\* and changes nothing, and while it is not paused an authorized request with
\* total >= funded is processed.
C2_PausedRejects ==
    [][\A k \in Keys, sender \in Senders, total \in Totals, accepts \in BOOLEAN :
          LET r == k[1]  src == k[2] IN
          tryWithdrawRemaining(TRUE, src, sender, r, total, accepts) =>
             /\ fundPaused => (lastCall'.result \in Rejections /\ UNCHANGED Ledger)
             /\ (~fundPaused /\ authed[src][sender] /\ total >= funded[r][src])
                    => lastCall'.result = "ok"]_vars

\* C3: a request whose total is below funded for its key is rejected, with
\* "already funded" once the pause modifier and the authorization let it through,
\* and changes neither funded nor any balance.
C3_RewindRejected ==
    [][\A k \in Keys, sender \in Senders, total \in Totals, accepts \in BOOLEAN :
          LET r == k[1]  src == k[2] IN
          (total < funded[r][src] /\ tryWithdrawRemaining(TRUE, src, sender, r, total, accepts)) =>
             /\ lastCall'.result \in Rejections
             /\ (PauseGate(fundPaused) /\ authed[src][sender]) => lastCall'.result = "already funded"
             /\ UNCHANGED Ledger]_vars

C3_Witness ==
    /\ lastCall.result = "already funded"
    /\ \E r \in Recipients, c \in Chains : funded[r][c] = 150

\* C4: a request that reaches the transfer returns normally whether or not the
\* transfer succeeds; a failed transfer leaves funded and the balances as they
\* were, so the same total asks for the same delta again; a successful one brings
\* funded to total (100 -> 150 pays 50, after 0 -> 100 paid 100).
C4_FailedTransferKeepsDelta ==
    [][\A k \in Keys, sender \in Senders, total \in Totals, accepts \in BOOLEAN :
          LET r == k[1]  src == k[2] IN
          (PauseGate(fundPaused) /\ authed[src][sender] /\ total >= funded[r][src]
              /\ tryWithdrawRemaining(TRUE, src, sender, r, total, accepts)) =>
             /\ lastCall'.result = "ok"
             /\ lastCall'.amt = total - funded[r][src]
             /\ ~lastCall'.success =>
                   /\ UNCHANGED Ledger
                   /\ total - funded'[r][src] = lastCall'.amt
             /\ lastCall'.success =>
                   /\ funded'[r][src] = total
                   /\ paid'[r][src] = paid[r][src] + lastCall'.amt
             /\ (funded[r][src] = 0 /\ total = 100 /\ lastCall'.success) => funded'[r][src] = 100
             /\ (funded[r][src] = 100 /\ total = 150 /\ ~lastCall'.success) => funded'[r][src] = 100
             /\ (funded[r][src] = 100 /\ total = 150 /\ lastCall'.success) => funded'[r][src] = 150]_vars

\* total=100 was paid, then the transfer for total=150 failed
C4_Witness ==
    /\ lastCall = [result |-> "ok", amt |-> 50, success |-> FALSE]
    /\ funded[WatchRecipient][WatchChain] = 100
    /\ lastTotal = 150

\* C6: a call that is not a cross-chain call from an authed (chain, sender) pair
\* is rejected ("unauthorized" once the pause modifier lets it through) and
\* changes nothing; authed changes only in authorize called by the owner.
C6_OnlyAuthorized ==
    [][/\ \A k \in Keys, sender \in Senders, total \in Totals, accepts \in BOOLEAN :
          LET r == k[1]  src == k[2] IN
            (~authed[src][sender] /\ tryWithdrawRemaining(TRUE, src, sender, r, total, accepts)) =>
               /\ lastCall'.result \in {"ExpectedPause", "unauthorized"}
               /\ PauseGate(fundPaused) => lastCall'.result = "unauthorized"
               /\ UNCHANGED Ledger
       /\ \A r \in Recipients, total \in Totals, accepts \in BOOLEAN :
            tryWithdrawRemaining(FALSE, NoChain, ZeroAddr, r, total, accepts) =>
               /\ lastCall'.result \in {"ExpectedPause", "unauthorized"}
               /\ UNCHANGED Ledger
       /\ authed' # authed => \E c \in Chains, a \in Senders :
               /\ authorize(Owner, c, a)
               /\ authed' = [authed EXCEPT ![c][a] = TRUE]
       /\ \A c \in Chains, a \in Senders : authorize(Stranger, c, a) => UNCHANGED authed]_vars

\* an unauthorized request reached a fund that holds value and has an authed pair
C6_Witness ==
    /\ lastCall.result = "unauthorized"
    /\ fundBalance > 0
    /\ \E c \in Chains, a \in Senders : authed[c][a]
    /\ \E c \in Chains, a \in Senders : ~authed[c][a]

\* C7: funded never decreases for any key; it changes only in a
\* tryWithdrawRemaining step whose transfer succeeded, by the amount transferred.
C7_FundedMonotone ==
    [][\A r \in Recipients, c \in Chains :
          /\ funded'[r][c] >= funded[r][c]
          /\ funded'[r][c] # funded[r][c] =>
                /\ lastCall'.result = "ok" /\ lastCall'.success
                /\ funded'[r][c] - funded[r][c] = lastCall'.amt
                /\ paid'[r][c] - paid[r][c] = lastCall'.amt
                /\ fundBalance - fundBalance' = lastCall'.amt
                /\ \E sender \in Senders, total \in Totals :
                       tryWithdrawRemaining(TRUE, c, sender, r, total, TRUE)]_vars

C7_Witness ==
    /\ lastCall = [result |-> "ok", amt |-> 50, success |-> TRUE]
    /\ \E r \in Recipients, c \in Chains : funded[r][c] = 150

\* C8: a request whose total is no greater than funded for its key moves no
\* value and leaves funded unchanged, whether total equals funded or is below it.
C8_ResubmitNoOp ==
    [][\A k \in Keys, sender \in Senders, total \in Totals, accepts \in BOOLEAN :
          LET r == k[1]  src == k[2] IN
          (total <= funded[r][src] /\ tryWithdrawRemaining(TRUE, src, sender, r, total, accepts)) =>
             /\ UNCHANGED Ledger
             /\ lastCall'.amt = 0
             /\ total < funded[r][src] => lastCall'.result \in Rejections]_vars

\* an accepted resubmission of the total already funded: the delta is 0
C8_Witness ==
    /\ lastCall.result = "ok" /\ lastCall.amt = 0
    /\ funded[WatchRecipient][WatchChain] = lastTotal

\* ------------------------------------------------------------------------
\* Properties of the whole system and of OmniGasExchange
\* ------------------------------------------------------------------------

\* C5: whatever the interleaving of swaps, deliveries, repeated and out-of-order
\* deliveries and failed transfers, the value the fund has paid to a recipient
\* for the exchange's chain never exceeds swapped[recipient] on that chain.
C5_NoDoublePayment ==
    \A r \in Recipients : paid[r][ExChain] <= swapped[r]

\* both swaps of a recipient are paid in full and an older settlement request
\* delivered afterwards was turned away
C5_Witness ==
    /\ swapped[WatchRecipient] = 760
    /\ paid[WatchRecipient][ExChain] = 760
    /\ lastCall.result = "already funded"

\* C9 (as claimed): in every exchange state, simSwap(amt) reports success exactly
\* when swap called with msg.value = amt succeeds, and then both give the same
\* OMNI amount.
C9_SimSwapAgrees ==
    [][\A r \in Recipients, v \in SwapValues :
          swap(r, v) =>
             /\ simSwap(v).ok <=> (lastSwap'.result = "ok")
             /\ (simSwap(v).ok /\ lastSwap'.result = "ok") => simSwap(v).amt = lastSwap'.amtOMNI]_vars

\* C10: a successful swap subtracts the fee from the deposit, then the cut
\* (remainder * pctCut / 1000, truncated) from the remainder, and converts what
\* is left at the oracle rate (truncated); pctCut=50, deposit 1000, fee 100 give
\* net 900, cut 45 and 855 wei converted.
C10_PayoutOrder ==
    [][\A r \in Recipients, v \in SwapValues :
          (swap(r, v) /\ lastSwap'.result = "ok") =>
             LET net  == v - fee
                 cut  == (net * pctCut) \div 1000
                 left == net - cut
             IN /\ lastSwap'.fee = fee
                /\ lastSwap'.cut = cut
                /\ lastSwap'.amtOMNI = (left * rate) \div CONVERSION_RATE_DENOM
                /\ swapped'[r] = swapped[r] + lastSwap'.amtOMNI
                /\ (pctCut = 50 /\ v = 1000 /\ fee = 100) =>
                       (net = 900 /\ lastSwap'.cut = 45 /\ left = 855
                        /\ lastSwap'.amtOMNI = (855 * rate) \div CONVERSION_RATE_DENOM)]_vars

\* the scenario at a rate of one half: 855 wei convert to 427 (427.5 truncated)
C10_Witness ==
    lastSwap = [recipient |-> WatchRecipient, paid |-> 1000, fee |-> 100, cut |-> 45,
                amtOMNI |-> 427, xfee |-> 100, result |-> "ok"]


\* C11: swapped[recipient] never decreases; a successful swap adds exactly the
\* amount it returns, and the settlement request it emits carries
\* swapped[recipient] as it is after the addition (the running total).
C11_RunningTotal ==
    [][/\ \A q \in Recipients : swapped'[q] >= swapped[q]
       /\ \A r \in Recipients, v \in SwapValues :
            (swap(r, v) /\ lastSwap'.result = "ok") =>
               /\ swapped'[r] = swapped[r] + lastSwap'.amtOMNI
               /\ \A q \in Recipients \ {r} : swapped'[q] = swapped[q]
               /\ [to |-> fund, recipient |-> r, total |-> swapped[r] + lastSwap'.amtOMNI] \in channel'
               /\ \A m \in channel' \ channel :
                    m = [to |-> fund, recipient |-> r, total |-> swapped'[r]]]_vars

\* a second swap of 380 has brought the total to 760, and 760 is what was requested
C11_Witness ==
    /\ lastSwap.result = "ok" /\ lastSwap.amtOMNI = 380
    /\ swapped[WatchRecipient] = 760
    /\ [to |-> fund, recipient |-> WatchRecipient, total |-> 760] \in channel
    /\ [to |-> fund, recipient |-> WatchRecipient, total |-> 380] \in channel

\* C12: a swap whose value is below swapFee() is rejected ("insufficient fee"),
\* one whose value after the fee exceeds maxSwap is rejected ("over max"), and
\* a rejected swap changes no swapped entry and emits no settlement request.
C12_RejectedSwap ==
    [][\A r \in Recipients, v \in SwapValues :
          swap(r, v) =>
             /\ (v < swapFee) =>
                   /\ lastSwap'.result # "ok"
                   /\ ~exPaused => lastSwap'.result = "insufficient fee"
             /\ (v >= swapFee /\ v - swapFee > maxSwap) =>
                   /\ lastSwap'.result # "ok"
                   /\ ~exPaused => lastSwap'.result = "over max"
             /\ (lastSwap'.result # "ok") => (swapped' = swapped /\ channel' = channel)]_vars

\* a deposit over the limit was rejected after an earlier swap had succeeded
C12_Witness ==
    /\ lastSwap.result = "over max"
    /\ swapped[WatchRecipient] > 0
    /\ channel # {}

\* C13: after initialize and any sequence of setPctCut, setMaxSwap and
\* setOmniXFund calls, pctCut < 1000, maxSwap > 0 and fund is not the zero
\* address; a setter given a cut >= 1000, a zero maximum or the zero address
\* is rejected and leaves the previous value in place.
C13_ParamsValid ==
    /\ [](pctCut < PCT_CUT_DENOM /\ maxSwap > 0 /\ fund # ZeroAddr)
    /\ [][/\ \A c \in Callers, pct \in PctCuts :
               setPctCut(c, pct) =>
                  /\ pct >= 1000 => pctCut' = pctCut
                  /\ (c = Owner /\ pct < 1000) => pctCut' = pct
          /\ \A c \in Callers, max \in MaxSwaps :
               setMaxSwap(c, max) =>
                  /\ max = 0 => maxSwap' = maxSwap
                  /\ (c = Owner /\ max > 0) => maxSwap' = max
          /\ \A c \in Callers, a \in AllFundAddrs :
               setOmniXFund(c, a) =>
                  /\ a = ZeroAddr => fund' = fund
                  /\ (c = Owner /\ a # ZeroAddr) => fund' = a]_vars

\* every parameter has been changed by its setter
C13_Witness ==
    pctCut = 0 /\ maxSwap = 500 /\ fund = FundAddr2

\* C14: swapFee(), quoted for the maximal placeholder recipient and amount, is
\* at least the fee the settlement xcall of swap is charged for any concrete
\* (recipient, total) at the same gas limit.
C14_QuoteCoversCharge ==
    [][/\ \A r \in Recipients, total \in {0, 1, 255, 256, 285, 380, 760, 65536} :
            feeFor(WithdrawZeroBytes(r, total)) <= swapFee
       /\ \A r \in Recipients, v \in FeeSwapValues :
            (swap(r, v) /\ lastSwap'.result = "ok") => lastSwap'.xfee <= swapFee]_vars

\* a swap was charged less for its xcall than the fee quoted to the depositor
C14_Witness ==
    /\ lastSwap.result = "ok"
    /\ discount = 1
    /\ lastSwap.xfee < lastSwap.fee


\* ------------------------------------------------------------------------
\* Properties of lib/netconf
\* ------------------------------------------------------------------------
NotConsensus(c) == ~IsOmniConsensus(network.ID, c.ID)

\* C15: EVMChains() holds no chain classified as the Omni consensus chain of the
\* network, and holds every other chain of the network exactly once, in the
\* network's order.
C15_EVMChains ==
    (out.op = "EVMChains") =>
        /\ \A i \in 1..Len(out.val) : ~IsOmniConsensus(network.ID, out.val[i].ID)
        /\ out.val = SelectSeq(network.Chains, NotConsensus)

\* chains {1: consensus, 2: rollupA, 3: rollupB} of simnet give [2, 3]
C15_Witness ==
    /\ out.op = "EVMChains"
    /\ network.ID = "simnet"
    /\ ChainIDs(network) = <<1, 2, 3>>
    /\ [i \in 1..Len(out.val) |-> out.val[i].Name] = <<"rollupA", "rollupB">>

\* C16: MarshalJSON followed by UnmarshalJSON gives back the same Chain, the
\* one with an empty portal address included; the zero address is written as
\* the empty string, and any other address is written as a hex string that
\* reads back and writes out as the same string.
C16_JSONRoundTrip ==
    \A i \in 1..Len(network.Chains) :
        LET c    == network.Chains[i]
            cj   == MarshalJSON(c)
            back == UnmarshalJSON(cj)
        IN  /\ ~back.err
            /\ back.chain = c
            /\ (c.PortalAddress = ZeroAddress) <=> (cj.PortalAddress = <<>>)
            /\ (c.PortalAddress # ZeroAddress) =>
                  /\ cj.PortalAddress = Hex(c.PortalAddress)
                  /\ MarshalJSON(back.chain).PortalAddress = cj.PortalAddress

\* a loaded network with a chain without portal and a chain with one, whose
\* period of 1.5 s is written with a fraction
C16_Witness ==
    /\ out.op = "Load" /\ ~out.err
    /\ Len(network.Chains) = 2
    /\ network.Chains[1].PortalAddress = ZeroAddress
    /\ network.Chains[2].PortalAddress = AddrA
    /\ network.Chains[2].BlockPeriod = 1500

\* what a valid duration string and a parsable hex address are: "0" or one or
\* more terms of digits and a known unit; 2 * AddressLength hex digits after an
\* optional 0x prefix
ValidDuration(str) ==
    \/ str = <<Term(0, 0, "")>>
    \/ str # <<>> /\ \A i \in 1..Len(str) : str[i].w >= 0 /\ str[i].u \in {"ms", "s", "m", "h"}
IsHexAddress(str) ==
    LET t == IF Len(str) >= 2 /\ str[1] = "0" /\ str[2] \in {"x", "X"}
             THEN SubSeq(str, 3, Len(str)) ELSE str
    IN  Len(t) = 2 * AddressLength /\ \A i \in 1..Len(t) : HexVal(t[i]) >= 0

\* C17: Load returns an error and no Network for a file with a chain entry
\* whose block_period is not a valid duration string or whose non-empty
\* portal_address is not parsable as a hex address.
C17_LoadRejectsMalformed ==
    (out.op = "Load" /\ \E i \in 1..Len(file.Chains) :
                           \/ ~ValidDuration(file.Chains[i].BlockPeriod)
                           \/ /\ file.Chains[i].PortalAddress # <<>>
                              /\ ~IsHexAddress(file.Chains[i].PortalAddress))
        => (out.err /\ network = ZeroNetwork)

\* C18: Validate returns an error when the network id is not an enumerated
\* identity or a chain fails a structural check (a finalization strategy
\* outside finalized, safe, latest), and no error otherwise.
C18_ValidateChecks ==
    (out.op = "Validate") =>
        (out.err <=> (\/ network.ID \notin allIDs
                      \/ \E i \in 1..Len(network.Chains) :
                            StratVerify(network.Chains[i].FinalizationStrat)))


\* ------------------------------------------------------------------------
\* Properties of the latency correlation engine
\* ------------------------------------------------------------------------
MsgA == MsgID(IDArbSepolia, IDOpSepolia, 1)
MsgB == MsgID(IDOpSepolia, IDArbSepolia, 1)

\* C19: after any sequence of delivered blocks neither store holds an entry
\* whose source chain is the Omni consensus chain, and every other message and
\* receipt a block delivered is in its store under its MsgID (with that
\* block's timestamp, until a later block shows it again); no step removes one.
C19_StoresFiltered ==
    /\ [](\A id \in DOMAIN msgStore \cup DOMAIN recStore :
             ~IsOmniConsensus(connectorNetwork.ID, id.SourceChainID))
    /\ [][/\ DOMAIN msgStore \subseteq DOMAIN msgStore'
          /\ DOMAIN recStore \subseteq DOMAIN recStore'
          /\ \A t \in Timestamps, ids \in SUBSET MsgIDs :
               /\ storeMsgs(ids, t) =>
                     \A id \in ids :
                        ~IsOmniConsensus(connectorNetwork.ID, id.SourceChainID) =>
                           (id \in DOMAIN msgStore' /\ msgStore'[id] = t)
               /\ storeReceipts(ids, t) =>
                     \A id \in ids :
                        ~IsOmniConsensus(connectorNetwork.ID, id.SourceChainID) =>
                           (id \in DOMAIN recStore' /\ recStore'[id] = t)]_vars

\* both rollup messages and one receipt are stored, from blocks of different times
C19_Witness ==
    /\ DOMAIN msgStore = {MsgA, MsgB}
    /\ DOMAIN recStore = {MsgA}
    /\ msgStore[MsgA] = 1 /\ recStore[MsgA] = 2 /\ msgStore[MsgB] = 2

\* C20: a message seen without its receipt stays in msgStore across aggregation
\* ticks and is counted as sent, not received; once a block has delivered the
\* receipt with the same MsgID, every aggregation pass counts the message as
\* received in its stream. That is: no step removes a key from either store,
\* every pass visits every message held when it began before it ends, and a
\* visit adds one to totalSent of the message's stream and one to
\* totalReceived exactly when the receipt is stored.
C20_ReceiptCounted ==
    [][/\ DOMAIN msgStore \subseteq DOMAIN msgStore'
       /\ DOMAIN recStore \subseteq DOMAIN recStore'
       /\ tick => rangeStart' = DOMAIN msgStore
       /\ rangeDone => DOMAIN msgStore \cap rangeStart \subseteq ranged /\ rangeStart \subseteq DOMAIN msgStore
       /\ (pc = "range" /\ pc' = "range") => (rangeStart' = rangeStart /\ ranged \subseteq ranged')
       /\ \A id \in MsgIDs :
            rangeVisit(id) =>
               LET sid == StreamID(id)
                   old == IF sid \in DOMAIN stats THEN stats[sid] ELSE ZeroStats
               IN  /\ id \in DOMAIN msgStore /\ id \notin ranged
                   /\ stats'[sid].totalSent = old.totalSent + 1
                   /\ stats'[sid].totalReceived =
                         old.totalReceived + (IF id \in DOMAIN recStore THEN 1 ELSE 0)
                   /\ \A other \in DOMAIN stats \ {sid} : stats'[other] = stats[other]]_vars

\* a pass has counted one stream's message as sent and received (latency 1)
\* and the other stream's message as sent only
C20_Witness ==
    /\ pc = "range"
    /\ ranged = {MsgA, MsgB}
    /\ stats[StreamID(MsgA)] = [totalSent |-> 1, totalReceived |-> 1, avg |-> Ratio(1, 1)]
    /\ stats[StreamID(MsgB)] = [totalSent |-> 1, totalReceived |-> 0, avg |-> Ratio(0, 1)]


\* C21: a subscription error on one chain leaves the subscriptions already
\* started live and the engine running; start-up fails only when the error
\* comes before any subscription has started. As a state predicate: whenever
\* the command has returned the StreamAsync error, no stream had been started.
C21_FailsOnlyBeforeAnyStream == pc = "failed" => streams = {}

C23_SwapOrRefund ==
    [][\A refundTo \in Recipients, r \in Recipients, v \in SwapValues :
          swapForOMNIOrRefund(refundTo, r, v, TRUE) =>
             \/ /\ lastSwap'.result = "ok"
                /\ lastSwap'.recipient = r
                /\ lastSwap'.paid = v
                /\ swapped'[r] = swapped[r] + lastSwap'.amtOMNI
             \/ /\ lastSwap'.result = "Refunded"
                /\ lastSwap'.recipient = refundTo
                /\ lastSwap'.paid = v
                /\ swapped' = swapped
                /\ channel' = channel]_vars


\* C24: requests for one (recipient, originChainId) key never overlap in their
\* read-modify-write of funded, also when the recipient's receiving code
\* triggers another request for its key during the transfer: each delta is
\* computed from the funded value the previous request left, so no delta is
\* paid twice. Hence what a key has been paid is what its ledger entry says,
\* and never more than the largest total requested for it.
C24_NoDeltaPaidTwice ==
    \A k \in Keys : /\ paid[k[1]][k[2]] = funded[k[1]][k[2]]
                    /\ paid[k[1]][k[2]] <= MaxTotal


\* the transfer of what the largest total leaves outstanding can succeed
SettlePossible ==
    /\ PauseGate(fundPaused)
    /\ \E sender \in Senders : Authorized(TRUE, WatchChain, sender)
    /\ ~AlreadyFunded(MaxTotal, funded[WatchRecipient][WatchChain])
    /\ TransferOk(Remaining(MaxTotal, funded[WatchRecipient][WatchChain]), TRUE)

\* C25: with requests for a key resubmitted with the same or a larger total,
\* once a transfer for the largest total has succeeded funded equals that
\* total and stays there, and if that transfer can succeed again and again
\* funded does reach the largest total; a request whose recipient does not
\* accept the transfer leaves funded as it was and its delta unpaid, so with
\* a recipient that never accepts funded stays at its value forever.
C25_RetriesConverge ==
    /\ [][\A sender \in Senders, total \in Totals :
             /\ (tryWithdrawRemaining(TRUE, WatchChain, sender, WatchRecipient, total, TRUE)
                   /\ lastCall'.success)
                => funded'[WatchRecipient][WatchChain] = total
             /\ tryWithdrawRemaining(TRUE, WatchChain, sender, WatchRecipient, total, FALSE)
                => /\ funded' = funded
                   /\ paid' = paid
                   /\ lastCall'.result = "ok" =>
                         lastCall'.amt = total - funded'[WatchRecipient][WatchChain]]_vars
    /\ [](funded[WatchRecipient][WatchChain] = MaxTotal
             => [](funded[WatchRecipient][WatchChain] = MaxTotal))
    /\ ([]<>SettlePossible) => <>[](funded[WatchRecipient][WatchChain] = MaxTotal)

\* 100 was settled, then a request for 150 was paid the 50 outstanding
C25_Witness ==
    /\ funded[WatchRecipient][WatchChain] = MaxTotal
    /\ paid[WatchRecipient][WatchChain] = MaxTotal
    /\ lastCall = [result |-> "ok", amt |-> 50, success |-> TRUE]
    /\ lastTotal = MaxTotal


\* C26: a retry from the source side, swap called again for the same recipient
\* with msg.value equal to swapFee(), succeeds, swaps an amount of 0, leaves
\* swapped[recipient] unchanged and sends a settlement request carrying the
\* same cumulative total as the previous swap for that recipient.
C26_RetryResendsTotal ==
    [][\A r \in Recipients, v \in SwapValues :
          (swap(r, v) /\ v = swapFee /\ ~exPaused) =>
             /\ lastSwap'.result = "ok"
             /\ lastSwap'.recipient = r
             /\ lastSwap'.amtOMNI = 0
             /\ swapped' = swapped
             /\ [to |-> fund, recipient |-> r, total |-> swapped[r]] \in channel'
             /\ \A m \in channel' \ channel : m.recipient = r /\ m.total = swapped[r]]_vars

\* a swap credited the recipient, and a retry paying just the fee went through
C26_Witness ==
    /\ lastSwap.result = "ok"
    /\ lastSwap.recipient = WatchRecipient
    /\ lastSwap.paid = swapFee
    /\ lastSwap.amtOMNI = 0
    /\ swapped[WatchRecipient] > 0
    /\ \E m \in channel : m.recipient = WatchRecipient /\ m.total = swapped[WatchRecipient]


\* the reference statistics of the messages ids, computed from the stores:
\* per stream the number of messages, the number of them with a receipt
\* stored under the same MsgID, and the mean of receipt timestamp - message
\* timestamp over those
RECURSIVE SumLatency(_)
SumLatency(S) ==
    IF S = {} THEN 0
    ELSE LET id == CHOOSE x \in S : TRUE
         IN  latency(recStore[id], msgStore[id]) + SumLatency(S \ {id})

RefStats(ids) ==
    [sid \in {StreamID(id) : id \in ids} |->
        LET sent == {id \in ids : StreamID(id) = sid}
            recv == {id \in sent : id \in DOMAIN recStore}
        IN  [totalSent |-> Cardinality(sent),
             totalReceived |-> Cardinality(recv),
             avg |-> IF recv = {} THEN Ratio(0, 1)
                     ELSE Ratio(SumLatency(recv), Cardinality(recv))]]

\* C27 as stated: in every aggregation pass the statistics reported at its end
\* equal, for each stream, the reference computed from the stores (count of
\* stored messages, count of those with a stored receipt, arithmetic mean of
\* their latencies).
C27_PassEqualsReference ==
    [][rangeDone => stats = RefStats(DOMAIN msgStore)]_vars

\* C27 amended: in an aggregation pass during which no message or receipt is
\* stored, the statistics equal the reference over the messages visited so
\* far, whatever the order of the visits, and at the end of the pass the
\* reference over all stored messages.
C27_QuietPassEqualsReference ==
    /\ []((pc = "range" /\ ~dirty) => stats = RefStats(ranged))
    /\ [][(rangeDone /\ ~dirty) => stats = RefStats(DOMAIN msgStore)]_vars

\* a quiet pass over three received messages of one stream, with latencies 0,
\* 1 and 1, and an unreceived message of another
C27_Witness ==
    /\ pc = "range"
    /\ ~dirty
    /\ ranged = AggIDs
    /\ AggOther \notin DOMAIN recStore
    /\ stats[StreamID(AggOther)] = [totalSent |-> 1, totalReceived |-> 0, avg |-> Ratio(0, 1)]
    /\ stats[[SourceChainID |-> IDArbSepolia, DestChainID |-> IDOpSepolia]] =
          [totalSent |-> 3, totalReceived |-> 3, avg |-> Ratio(2, 3)]


\* what one wei of ETH converts to, rounded up, and never less than one wei
RoundingUnit ==
    IF rate <= CONVERSION_RATE_DENOM THEN 1
    ELSE (rate + CONVERSION_RATE_DENOM - 1) \div CONVERSION_RATE_DENOM

\* C28 as stated: for every amtOMNI, cut and rate, swapping
\* ethNeededFor(amtOMNI), when within maxSwap, yields an amount of OMNI that
\* differs from amtOMNI by at most one wei.
C28_QuoteInverts ==
    [][\A x \in QuoteAmounts :
          ethNeededForCall(x) =>
             LET sim == simSwap(quote'.amtETH)
             IN  sim.ok => (sim.amt - x <= 1 /\ x - sim.amt <= 1)]_vars

\* C28 amended: swapping ethNeededFor(amtOMNI), when within maxSwap, never
\* yields more than amtOMNI, and falls short of it by at most what one wei of
\* ETH converts to (one wei of OMNI when that is less).
C28_QuoteInvertsWithinUnit ==
    [][\A x \in QuoteAmounts :
          ethNeededForCall(x) =>
             LET sim == simSwap(quote'.amtETH)
             IN  /\ quote'.amtETH >= swapFee
                 /\ sim.ok => (sim.amt <= x /\ x - sim.amt <= RoundingUnit)]_vars

\* at 3 OMNI for 1 ETH and a cut of 5%, the quote for 101 wei of OMNI buys 99
C28_Witness ==
    /\ rate = 3000000
    /\ pctCut = 50
    /\ quote.amtOMNI = 101
    /\ quote.amtETH = ethNeededFor(101)
    /\ simSwap(quote.amtETH).ok
    /\ simSwap(quote.amtETH).amt = 99


\* the ids of the chains of a network
IDsOf(n) == {n.Chains[i].ID : i \in 1..Len(n.Chains)}

\* C29: Chain(id) returns a chain of the network whose ID is id together
\* with true, and the empty Chain with false when no chain has that id;
\* ChainNamesByIDs() has the chain IDs of the network as its keys, each mapped
\* to the name of a chain with that ID (the one Chain(id) returns when IDs are
\* not repeated). For chains {1: consensus, 2: rollupA, 3: rollupB}:
\* Chain(2) is rollupA, EVMChains() is [2, 3] and ChainNamesByIDs() is
\* {1: consensus, 2: rollupA, 3: rollupB}.
C29_ChainLookups ==
    /\ [][\A id \in ChainQueryIDs :
             callChain(id) =>
                LET r == out'.val
                IN  /\ r.ok <=> id \in IDsOf(network)
                    /\ r.ok => /\ r.chain.ID = id
                               /\ \E i \in 1..Len(network.Chains) : network.Chains[i] = r.chain
                    /\ ~r.ok => r.chain = ZeroChain
                    /\ (ChainIDs(network) = <<1, 2, 3>> /\ id = 2) => r.chain.Name = "rollupA"]_vars
    /\ [](out.op = "ChainNamesByIDs" =>
             /\ DOMAIN out.val = IDsOf(network)
             /\ \A id \in DOMAIN out.val :
                   /\ \E i \in 1..Len(network.Chains) :
                         network.Chains[i].ID = id /\ network.Chains[i].Name = out.val[id]
                   /\ Cardinality({i \in 1..Len(network.Chains) : network.Chains[i].ID = id}) = 1
                         => out.val[id] = Chain(network, id).chain.Name
             /\ (ChainIDs(network) = <<1, 2, 3>> /\ Chain(network, 3).chain.Name = "rollupB")
                   => out.val = (1 :> "consensus" @@ 2 :> "rollupA" @@ 3 :> "rollupB"))
    /\ []((out.op = "EVMChains" /\ network.ID = "simnet" /\ ChainIDs(network) = <<1, 2, 3>>)
             => [i \in 1..Len(out.val) |-> out.val[i].ID] = <<2, 3>>)

\* Chain(2) on the network of the example
C29_Witness ==
    /\ out.op = "Chain"
    /\ out.val.ok
    /\ out.val.chain.Name = "rollupA"
    /\ ChainIDs(network) = <<1, 2, 3>>
    /\ ChainNamesByIDs(network) = (1 :> "consensus" @@ 2 :> "rollupA" @@ 3 :> "rollupB")


\* C30: the stores hold one entry per MsgID, and storing a message or receipt
\* seen before overwrites the entry and its timestamp; so, however the
\* insertions of the subscriptions interleave with an aggregation pass, the
\* pass counts each MsgID at most once: for every stream totalSent is the
\* number of messages of the stream visited so far, no more than the store
\* holds, and totalReceived <= totalSent.
C30_CountedOnce ==
    /\ [](pc = "range" =>
             /\ ranged \subseteq DOMAIN msgStore
             /\ DOMAIN stats = {StreamID(id) : id \in ranged}
             /\ \A sid \in DOMAIN stats :
                   /\ stats[sid].totalSent = Cardinality({id \in ranged : StreamID(id) = sid})
                   /\ stats[sid].totalSent
                         <= Cardinality({id \in DOMAIN msgStore : StreamID(id) = sid})
                   /\ stats[sid].totalReceived <= stats[sid].totalSent
                   /\ stats[sid].totalReceived
                         <= Cardinality({id \in DOMAIN recStore : StreamID(id) = sid}))
    /\ [][\A t \in Timestamps, id \in AggIDs :
             /\ (storeMsgs({id}, t) /\ id \in DOMAIN msgStore) =>
                   (DOMAIN msgStore' = DOMAIN msgStore /\ msgStore'[id] = t)
             /\ (storeReceipts({id}, t) /\ id \in DOMAIN recStore) =>
                   (DOMAIN recStore' = DOMAIN recStore /\ recStore'[id] = t)]_vars

\* a pass that overlapped insertions: three messages of one stream visited, two
\* of them counted as received, and by now a receipt stored for every message
C30_Witness ==
    /\ pc = "range"
    /\ dirty
    /\ ranged = AggStreamIDs
    /\ stats[[SourceChainID |-> IDArbSepolia, DestChainID |-> IDOpSepolia]].totalSent = 3
    /\ stats[[SourceChainID |-> IDArbSepolia, DestChainID |-> IDOpSepolia]].totalReceived = 2
    /\ DOMAIN recStore = AggIDs


\* C31: nothing is evicted from the stores and every tick recomputes the
\* statistics from the whole store, so from one aggregation tick to the next
\* totalSent and totalReceived of each stream do not decrease, and a stream
\* that appeared in the statistics of one tick appears in those of every
\* later tick: the statistics a pass ends with cover every stream of the
\* table rendered before, with counts at least as large.
C31_CountsNeverDecrease ==
    /\ [][rangeDone =>
             \A sid \in DOMAIN shown :
                /\ sid \in DOMAIN stats
                /\ stats[sid].totalSent >= shown[sid].totalSent
                /\ stats[sid].totalReceived >= shown[sid].totalReceived]_vars
    /\ [][/\ DOMAIN msgStore \subseteq DOMAIN msgStore'
          /\ DOMAIN recStore \subseteq DOMAIN recStore'
          /\ DOMAIN shown \subseteq DOMAIN shown']_vars

\* the table showed one message sent and none received on a stream, and the
\* next pass ends with two sent and one received on it, and a second stream
C31_Witness ==
    /\ pc = "range"
    /\ rangeStart \subseteq ranged
    /\ [SourceChainID |-> IDArbSepolia, DestChainID |-> IDOpSepolia] \in DOMAIN shown
    /\ shown[[SourceChainID |-> IDArbSepolia, DestChainID |-> IDOpSepolia]].totalSent = 1
    /\ shown[[SourceChainID |-> IDArbSepolia, DestChainID |-> IDOpSepolia]].totalReceived = 0
    /\ [SourceChainID |-> IDOpSepolia, DestChainID |-> IDArbSepolia] \notin DOMAIN shown
    /\ DOMAIN stats = {StreamID(id) : id \in TickIDs}
    /\ stats[[SourceChainID |-> IDArbSepolia, DestChainID |-> IDOpSepolia]].totalSent = 2
    /\ stats[[SourceChainID |-> IDArbSepolia, DestChainID |-> IDOpSepolia]].totalReceived = 1

====
